---- MODULE Spec2Model ----
(***************************************************************************)
(* A model of the MediX automation scripts.                                *)
(*                                                                         *)
(*   forward_script.py         main: validate configuration, parse         *)
(*                             range.txt, connect, resolve the channels,   *)
(*                             run the tasks, report                       *)
(*   bulkdelete/delete_script.py  main: validate configuration, parse      *)
(*                             delete_range.txt, connect, delete in chunks *)
(*   send_polls.py             process_content: send the items of the JSON *)
(*                             file; escape_markdown_v2, log_to_telegram   *)
(*                                                                         *)
(* One run of one script is one behaviour: Init picks the script, the      *)
(* program counter pc walks through its statements, and everything the     *)
(* environment decides (the lines of the task file, what the source        *)
(* channel holds, which remote call fails and how) is drawn when the       *)
(* program reads it.                                                       *)
(*                                                                         *)
(* Strings that the code takes apart (identifier values) are sequences of  *)
(* one-character strings.                                                  *)
(***************************************************************************)
EXTENDS Integers, Sequences, FiniteSets, TLC

(***************************************************************************)
(* Bounds of the model.                                                    *)
(***************************************************************************)
\* the task file has at most MaxLines lines
MaxLines == 3
\* message identifiers written in the task file are 1..MaxId
MaxId == 3
\* a throttle carries a retry time of 1..MaxRetry seconds
MaxRetry == 2
\* the batch size the run is also tried with, so that a range within MaxId
\* spans several batches
SmallBatch == 2
\* the arguments of parse_id and escape_markdown_v2 have at most MaxChars
\* characters
MaxChars == 3
\* the JSON file of send_polls has at most MaxItems items
MaxItems == 2

(***************************************************************************)
(* Program constants.                                                      *)
(***************************************************************************)
MIN_DELAY_SECONDS == 1
MAX_DELAY_SECONDS == 2
BATCH_SIZE == 100
\* asyncio.sleep(1) between batches
BATCH_PAUSE == 1
\* wait_time = e.seconds + 5
FLOOD_MARGIN == 5
\* delete_script: asyncio.sleep(2) between chunks
CHUNK_PAUSE == 2
\* send_polls: asyncio.sleep(1) between the question text and the poll
QUESTION_PAUSE == 1
\* send_polls: asyncio.sleep(4) after an item
ITEM_PAUSE == 4

\* BATCH_SIZE is a module-level setting: the run is modelled with the value
\* of the source and with SmallBatch.
BatchSizes == {SmallBatch, BATCH_SIZE}

(***************************************************************************)
(* Strings and parse_id.                                                   *)
(***************************************************************************)
DecDigits == <<"0", "1", "2", "3", "4", "5", "6", "7", "8", "9">>

IsDecDigit(c) == \E d \in 1..10 : DecDigits[d] = c

DigitValue(c) == (CHOOSE d \in 1..10 : DecDigits[d] = c) - 1

\* the one-character string of a number 0..9
DigitChar(n) == DecDigits[n + 1]

\* str.isdigit() is also true of digit characters that are no decimal
\* digits, such as a superscript two, which int() rejects
IsDigitChar(c) == IsDecDigit(c) \/ c = "^2"

IsSpace(c) == c = " "

RECURSIVE LStrip(_)
LStrip(s) == IF s # <<>> /\ IsSpace(Head(s)) THEN LStrip(Tail(s)) ELSE s

RECURSIVE RStrip(_)
RStrip(s) ==
    IF s # <<>> /\ IsSpace(s[Len(s)]) THEN RStrip(SubSeq(s, 1, Len(s) - 1)) ELSE s

\* str.strip()
Strip(s) == RStrip(LStrip(s))

\* str.isdigit(): not empty and every character a digit
IsDigit(s) == s # <<>> /\ \A j \in 1..Len(s) : IsDigitChar(s[j])

AllDecimal(s) == s # <<>> /\ \A j \in 1..Len(s) : IsDecDigit(s[j])

RECURSIVE DecimalValue(_)
DecimalValue(s) ==
    IF s = <<>> THEN 0
    ELSE 10 * DecimalValue(SubSeq(s, 1, Len(s) - 1)) + DigitValue(s[Len(s)])

\* the result of a call that returns an integer or raises ValueError
Returned(n) == [err |-> FALSE, val |-> n]
ValueError == [err |-> TRUE, val |-> 0]

\* int(text): surrounding blanks and one sign are accepted
PyInt(s) ==
    LET t == Strip(s)
        signed == t # <<>> /\ Head(t) \in {"-", "+"}
        body == IF signed THEN Tail(t) ELSE t
    IN  IF ~AllDecimal(body) THEN ValueError
        ELSE IF signed /\ Head(t) = "-" THEN Returned(0 - DecimalValue(body))
        ELSE Returned(DecimalValue(body))

\* value.split('/')[-1]
RECURSIVE LastSegment(_)
LastSegment(s) ==
    IF \A j \in 1..Len(s) : s[j] # "/" THEN s
    ELSE LastSegment(Tail(s))

HasSlash(s) == \E j \in 1..Len(s) : s[j] = "/"

\* parse_id without the strip
parse_id_without_strip(value) ==
    LET v == value
    IN  IF IsDigit(v) THEN PyInt(v)
        ELSE IF HasSlash(v) THEN PyInt(LastSegment(v))
        ELSE ValueError

\* forward_script.parse_id
parse_id(value) ==
    LET v == Strip(value)
    IN  IF IsDigit(v) THEN PyInt(v)
        ELSE IF HasSlash(v) THEN PyInt(LastSegment(v))
        ELSE ValueError

\* delete_script.parse_id: the same branches, int() raising the ValueError
delete_parse_id(value) ==
    LET v == Strip(value)
    IN  IF IsDigit(v) THEN PyInt(v)
        ELSE IF HasSlash(v) THEN PyInt(LastSegment(v))
        ELSE ValueError

(***************************************************************************)
(* The lines of a task file.  A line is blank, a comment, a line without   *)
(* a colon, or "key: value".                                               *)
(***************************************************************************)
\* identifier values: a raw number, a link ending in a number, and two
\* values parse_id rejects
IdValues ==
    {<<DigitChar(n)>> : n \in 1..MaxId}
        \cup {<<"t", "/", DigitChar(n)>> : n \in 1..MaxId}
        \cup {<<"a">>, <<"t", "/", "a">>}

\* the content of a message line: a text with a character that is reserved
\* in the HTML of the log channel
Contents == {<<"h", "<">>}

RawKeys == {"message", "start", "end", "Start", "END", "note"}

KeyLine(k, v) == [form |-> "kv", key |-> k, value |-> v]

Lines ==
    {[form |-> f, key |-> "", value |-> <<>>] : f \in {"blank", "comment", "nocolon"}}
        \cup {KeyLine("message", c) : c \in Contents}
        \cup {KeyLine(k, v) : k \in RawKeys \ {"message"}, v \in IdValues}

\* str.lower() on the keys of the model
Lower(k) ==
    CASE k = "Start" -> "start"
      [] k = "END" -> "end"
      [] OTHER -> k

\* "if not line or line.startswith('#'): continue" and
\* "if len(parts) != 2: continue"
Skipped(ln) == ln.form # "kv"

None == <<>>
Some(n) == <<n>>

MessageTask(content) == [type |-> "message", content |-> content, start |-> 0, end |-> 0]
RangeTask(s, e) == [type |-> "range", content |-> <<>>, start |-> s, end |-> e]

\* range(a, b + 1) as a sequence
PyRange(a, b) == [j \in 1..(IF b >= a THEN b - a + 1 ELSE 0) |-> a + j - 1]

\* what a fetched identifier is at the source: nothing, a poll, another item
Kinds == {"none", "poll", "text"}

NoStats == [polls_forwarded |-> 0, non_polls_skipped |-> 0, errors |-> 0]

NoException == [type |-> "none", seconds |-> 0, site |-> "", id |-> 0]
FloodWaitError(secs, site, id) == [type |-> "flood", seconds |-> secs, site |-> site, id |-> id]
OtherError(site, id) == [type |-> "other", seconds |-> 0, site |-> site, id |-> id]

\* a remote call: what was called, whether it succeeded, the seconds slept
\* since the call before it (gap) and since the fetch, relay or send-text
\* call before it (dgap, first when there was none), and the suspension
\* still owed when it was issued
NoCall ==
    [kind |-> "none", what |-> "", ok |-> TRUE, gap |-> 0, dgap |-> 0, first |-> TRUE,
     owed |-> 0]

DispatchKinds == {"send_text", "fetch", "relay"}

Min(a, b) == IF a <= b THEN a ELSE b
Max(a, b) == IF a >= b THEN a ELSE b

\* delete_script: chunk_size = 100
chunk_size == 100

\* the deletion is modelled with the value of the source and with SmallBatch
ChunkSizes == {SmallBatch, chunk_size}

\* the sequences of at most n characters of an alphabet
Strings(alphabet, n) == UNION {[1..m -> alphabet] : m \in 0..n}

\* the arguments parse_id is called with when it is called on its own
IdAlphabet == {"1", "2", "a", "/", " ", "-", "^2"}

IdInputs == Strings(IdAlphabet, MaxChars)

\* before the call of the two parse_id
NotCalled == [forward |-> ValueError, delete |-> ValueError]

(***************************************************************************)
(* send_polls: escape_markdown_v2 and the items of the JSON file.          *)
(***************************************************************************)
\* escape_markdown_v2 with a character class that lacks the backslash
escape_chars_without_backslash ==
    {"_", "*", "[", "]", "(", ")", "~", "backquote", ">", "#", "+", "-", "=", "|", "{", "}",
     ".", "!"}

\* escape_chars: the backslash and the eighteen characters that follow it
\* in the raw string of the source ("backquote" is the one character `)
escape_chars ==
    {"\\", "_", "*", "[", "]", "(", ")", "~", "backquote", ">", "#", "+", "-", "=", "|", "{", "}",
     ".", "!"}

\* re.sub of the character class of escape_chars: every character
\* of the class is replaced by a backslash and itself
RECURSIVE escape_markdown_v2(_)
escape_markdown_v2(t) ==
    IF t = <<>> THEN <<>>
    ELSE (IF Head(t) \in escape_chars THEN <<"\\", Head(t)>> ELSE <<Head(t)>>)
             \o escape_markdown_v2(Tail(t))

\* the texts escape_markdown_v2 is called with when it is called on its own
TextAlphabet == {"a", "\\", "*", "."}

Texts == Strings(TextAlphabet, MaxChars)

\* an element of the JSON list: a dict with its 'type' (a dict without one
\* is a poll), whether its 'explanation' is missing, empty, a text or a
\* number that is not 0, whether it has the key its type is read with first
\* ('text', 'question'), whether the 'question' of a poll is a text or a
\* value that is no string (a number, null), and whether a poll has the
\* keys 'options' and 'correct_option'; or an element that is no dict
NoItem ==
    [form |-> "none", type |-> "", explanation |-> "none", complete |-> TRUE,
     question |-> "text", options |-> TRUE]

\* the values of 'explanation' that "and explanation_text" takes as true
Truthy == {"text", "number"}

Items ==
    {[form |-> "nondict", type |-> "", explanation |-> "none", complete |-> FALSE,
      question |-> "none", options |-> FALSE]}
        \cup {[form |-> "dict", type |-> "message", explanation |-> "none", complete |-> c,
               question |-> "none", options |-> FALSE] : c \in BOOLEAN}
        \cup {[form |-> "dict", type |-> "poll", explanation |-> x, complete |-> TRUE,
               question |-> "text", options |-> TRUE] :
                    x \in {"none", "empty", "text", "number"}}
        \cup {[form |-> "dict", type |-> "poll", explanation |-> "none", complete |-> TRUE,
               question |-> "text", options |-> FALSE]}
        \cup {[form |-> "dict", type |-> "poll", explanation |-> "none", complete |-> TRUE,
               question |-> "nonstring", options |-> TRUE]}
        \cup {[form |-> "dict", type |-> "poll", explanation |-> "text", complete |-> FALSE,
               question |-> "none", options |-> TRUE]}
        \cup {[form |-> "dict", type |-> "photo", explanation |-> "none", complete |-> TRUE,
               question |-> "none", options |-> FALSE]}

\* what was sent for the item of the current turn: the message of a message
\* item, the question text, the poll with its explanation, the poll without
\* it, and the spoiler message; each "none", "ok" or how it failed
NoSends ==
    [message |-> "none", question |-> "none", first |-> "none", fallback |-> "none",
     spoiler |-> "none"]

VARIABLES
    script,           \* which script runs
    pc,               \* the statement the run is at
    fatal,            \* the fatal error that ended the run, "none" if none
    nread,            \* lines of the task file read so far
    key, value,       \* key and value of the line last read
    start_id,         \* the pending start, None or Some(id)
    tasks,            \* forward_script: the task list
    all_message_ids,  \* delete_script: the identifiers to delete
    endsPending,      \* history: end lines read while a start was pending
    rangesClosed,     \* history: ranges the parser produced
    batch_size,       \* the BATCH_SIZE the run is made with
    log_channel_int_id,
    client,           \* the TelegramClient: "none", "new", "connected", "disconnected"
    source,           \* what the source channel holds, as far as a fetch has shown it
    stats,
    i,                \* "for i, task in enumerate(tasks, 1)"
    batch_start,
    valid_messages,
    k,                \* the place of "message" in valid_messages
    caught,           \* the exception the task's handlers caught
    sinceCall,        \* seconds slept since the last remote call
    sinceDispatch,    \* seconds slept since the last fetch, relay or send-text call
    owed,             \* history: seconds of a throttle's suspension still to be served
    recent,           \* history: the last two remote calls
    dispatched,       \* history: a fetch, relay or send-text call was issued
    failedCalls,      \* history: fetch, relay and send-text calls that failed
    delivered,        \* history: relay and send-text calls that succeeded
    notFound,         \* history: fetched identifiers that did not resolve
    seen,             \* history: identifiers of the current task that were handled
    relayedNow,       \* history: identifiers relayed during the current task
    relayedTwice,     \* history: a task relayed an identifier it had relayed before
    summaries,        \* history: final reports emitted
    defs,             \* history: the line each descriptor was produced from
    order,            \* history: the tasks in the order of their first remote call
    batches,          \* history: the batch_ids of the batches of the current task
    batchLogs,        \* history: log publishes since the fetch of the current batch
    rawPublished,     \* history: a log text left with a reserved character unescaped
    chunks,           \* delete_script: the chunks of all_message_ids
    submitted,        \* history: the chunks given to delete_messages, in order
    returned,         \* what the two parse_id returned for value
    text, escaped,    \* escape_markdown_v2: its argument and its result
    nitems,           \* send_polls: len(item_list)
    item,             \* send_polls: the item of the current turn
    sends             \* history: what was sent for the current item

parseVars == <<nread, key, value, start_id, tasks, all_message_ids, endsPending,
              rangesClosed, defs>>

loopVars == <<i, batch_start, valid_messages, k, caught>>

clockVars == <<sinceCall, sinceDispatch, owed, recent, order, batchLogs>>

historyVars == <<dispatched, failedCalls, delivered, notFound, seen, relayedNow,
                 relayedTwice, summaries, batches, rawPublished>>

deleteVars == <<chunks, submitted>>

pureVars == <<returned, text, escaped>>

pollVars == <<nitems, item, sends>>

otherVars == <<deleteVars, pureVars, pollVars>>

runVars == <<log_channel_int_id, client, source, stats, loopVars, clockVars, historyVars>>

vars == <<script, pc, fatal, parseVars, batch_size, runVars, otherVars>>

\* the scripts, and the two helper functions called on their own
Scripts == {"forward", "delete", "polls", "parse_id", "escape_markdown_v2"}

Init ==
    /\ script \in Scripts
    /\ pc = "start"
    /\ fatal = "none"
    /\ nread = 0
    /\ key = ""
    /\ value \in (IF script = "parse_id" THEN IdInputs ELSE {<<>>})
    /\ start_id = None
    /\ tasks = <<>>
    /\ all_message_ids = <<>>
    /\ endsPending = 0
    /\ rangesClosed = 0
    /\ batch_size \in (CASE script = "forward" -> BatchSizes
                         [] script = "delete" -> ChunkSizes
                         [] OTHER -> {BATCH_SIZE})
    /\ log_channel_int_id = 0
    /\ client = "none"
    /\ source = [id \in 1..MaxId |-> "unknown"]
    /\ stats = NoStats
    /\ i = 0
    /\ batch_start = 0
    /\ valid_messages = <<>>
    /\ k = 0
    /\ caught = NoException
    /\ sinceCall = 0
    /\ sinceDispatch = 0
    /\ owed = 0
    /\ recent = <<NoCall, NoCall>>
    /\ dispatched = FALSE
    /\ failedCalls = 0
    /\ delivered = 0
    /\ notFound = 0
    /\ seen = {}
    /\ relayedNow = {}
    /\ relayedTwice = FALSE
    /\ summaries = 0
    /\ defs = <<>>
    /\ order = <<>>
    /\ batches = <<>>
    /\ batchLogs = 0
    /\ rawPublished = FALSE
    /\ chunks = <<>>
    /\ submitted = <<>>
    /\ returned = NotCalled
    /\ text \in (IF script = "escape_markdown_v2" THEN Texts ELSE {<<>>})
    /\ escaped = <<>>
    /\ nitems = 0
    /\ item = NoItem
    /\ sends = NoSends

(***************************************************************************)
(* forward_script.main, sections 1 and 2.                                  *)
(***************************************************************************)
\* the fatal errors: a missing configuration value, no task file, an
\* identifier parse_id rejects, a task file without tasks, a LOG_CHANNEL_ID
\* that is no integer, a channel that does not resolve, and an exception
\* that nothing catches
Fatal == {"config", "nofile", "bad_id", "no_tasks", "log_id", "resolve", "crash"}

\* print the FATAL ERROR and return
Abort(reason) ==
    /\ fatal' = reason
    /\ pc' = "exit"

\* the exit code of the process of "asyncio.run(main())": main returns
\* after a fatal error that it prints, and an exception that nothing
\* catches leaves the interpreter with code 1
exit_code == IF fatal = "crash" THEN 1 ELSE 0

\* 1. VALIDATE CONFIGURATION: a missing variable ends the run
ValidateConfig ==
    /\ script = "forward"
    /\ pc = "start"
    /\ \E missing \in BOOLEAN :
        IF missing THEN Abort("config") ELSE pc' = "open" /\ fatal' = fatal
    /\ UNCHANGED <<script, otherVars, parseVars, batch_size, runVars>>

\* open('range.txt'): FileNotFoundError ends the run
OpenFile ==
    /\ script = "forward"
    /\ pc = "open"
    /\ \E found \in BOOLEAN :
        IF found THEN pc' = "parse" /\ fatal' = fatal ELSE Abort("nofile")
    /\ UNCHANGED <<script, otherVars, parseVars, batch_size, runVars>>

\* one turn of "for line in lines" on a line that is skipped
ParseSkip(ln) ==
    /\ key' = ""
    /\ value' = <<>>
    /\ UNCHANGED <<start_id, tasks, all_message_ids, endsPending, rangesClosed, defs, pc,
                   fatal>>

\* ParseKeyValue without "start_id = None" after an end line
ParseKeyValueKeepsStart(ln) ==
    LET kw == Lower(ln.key)
        v == Strip(ln.value)
        pending == start_id # None
        id == parse_id(v)
    IN  /\ key' = kw
        /\ value' = v
        /\ all_message_ids' = all_message_ids
        /\ defs' = CASE kw = "message" ->
                            Append(defs, [line |-> nread + 1, task |-> MessageTask(v)])
                      [] kw = "end" /\ pending /\ ~id.err ->
                            Append(defs, [line |-> nread + 1,
                                          task |-> RangeTask(start_id[1], id.val)])
                      [] OTHER -> defs
        /\ endsPending' = IF kw = "end" /\ pending THEN endsPending + 1 ELSE endsPending
        /\ CASE kw = "message" ->
                    /\ tasks' = Append(tasks, MessageTask(v))
                    /\ UNCHANGED <<start_id, rangesClosed, pc, fatal>>
             [] kw = "start" ->
                    IF id.err
                    THEN Abort("bad_id") /\ UNCHANGED <<start_id, tasks, rangesClosed>>
                    ELSE /\ start_id' = Some(id.val)
                         /\ UNCHANGED <<tasks, rangesClosed, pc, fatal>>
             [] kw = "end" /\ pending ->
                    IF id.err
                    THEN Abort("bad_id") /\ UNCHANGED <<start_id, tasks, rangesClosed>>
                    ELSE /\ tasks' = Append(tasks, RangeTask(start_id[1], id.val))
                         /\ start_id' = start_id
                         /\ rangesClosed' = rangesClosed + 1
                         /\ UNCHANGED <<pc, fatal>>
             [] OTHER -> UNCHANGED <<start_id, tasks, rangesClosed, pc, fatal>>

\* ParseKeyValue putting a new descriptor in front of the task list
ParseKeyValuePrepends(ln) ==
    LET kw == Lower(ln.key)
        v == Strip(ln.value)
        pending == start_id # None
        id == parse_id(v)
    IN  /\ key' = kw
        /\ value' = v
        /\ all_message_ids' = all_message_ids
        /\ defs' = CASE kw = "message" ->
                            Append(defs, [line |-> nread + 1, task |-> MessageTask(v)])
                      [] kw = "end" /\ pending /\ ~id.err ->
                            Append(defs, [line |-> nread + 1,
                                          task |-> RangeTask(start_id[1], id.val)])
                      [] OTHER -> defs
        /\ endsPending' = IF kw = "end" /\ pending THEN endsPending + 1 ELSE endsPending
        /\ CASE kw = "message" ->
                    /\ tasks' = <<MessageTask(v)>> \o tasks
                    /\ UNCHANGED <<start_id, rangesClosed, pc, fatal>>
             [] kw = "start" ->
                    IF id.err
                    THEN Abort("bad_id") /\ UNCHANGED <<start_id, tasks, rangesClosed>>
                    ELSE /\ start_id' = Some(id.val)
                         /\ UNCHANGED <<tasks, rangesClosed, pc, fatal>>
             [] kw = "end" /\ pending ->
                    IF id.err
                    THEN Abort("bad_id") /\ UNCHANGED <<start_id, tasks, rangesClosed>>
                    ELSE /\ tasks' = <<RangeTask(start_id[1], id.val)>> \o tasks
                         /\ start_id' = None
                         /\ rangesClosed' = rangesClosed + 1
                         /\ UNCHANGED <<pc, fatal>>
             [] OTHER -> UNCHANGED <<start_id, tasks, rangesClosed, pc, fatal>>

\* one turn of "for line in lines" of forward_script on a key: value line
ParseKeyValue(ln) ==
    LET kw == Lower(ln.key)
        v == Strip(ln.value)
        pending == start_id # None
        id == parse_id(v)
    IN  /\ key' = kw
        /\ value' = v
        /\ all_message_ids' = all_message_ids
        /\ defs' = CASE kw = "message" ->
                            Append(defs, [line |-> nread + 1, task |-> MessageTask(v)])
                      [] kw = "end" /\ pending /\ ~id.err ->
                            Append(defs, [line |-> nread + 1,
                                          task |-> RangeTask(start_id[1], id.val)])
                      [] OTHER -> defs
        /\ endsPending' = IF kw = "end" /\ pending THEN endsPending + 1 ELSE endsPending
        /\ CASE kw = "message" ->
                    /\ tasks' = Append(tasks, MessageTask(v))
                    /\ UNCHANGED <<start_id, rangesClosed, pc, fatal>>
             [] kw = "start" ->
                    IF id.err
                    THEN Abort("bad_id") /\ UNCHANGED <<start_id, tasks, rangesClosed>>
                    ELSE /\ start_id' = Some(id.val)
                         /\ UNCHANGED <<tasks, rangesClosed, pc, fatal>>
             [] kw = "end" /\ pending ->
                    IF id.err
                    THEN Abort("bad_id") /\ UNCHANGED <<start_id, tasks, rangesClosed>>
                    ELSE /\ tasks' = Append(tasks, RangeTask(start_id[1], id.val))
                         /\ start_id' = None
                         /\ rangesClosed' = rangesClosed + 1
                         /\ UNCHANGED <<pc, fatal>>
             [] OTHER -> UNCHANGED <<start_id, tasks, rangesClosed, pc, fatal>>

ReadLine ==
    /\ script = "forward"
    /\ pc = "parse"
    /\ nread < MaxLines
    /\ nread' = nread + 1
    /\ \E ln \in Lines :
        IF Skipped(ln) THEN ParseSkip(ln) ELSE ParseKeyValue(ln)
    /\ UNCHANGED <<script, otherVars, batch_size, runVars>>

\* EndOfFile without the check for an empty task list
EndOfFileUnchecked ==
    /\ script = "forward"
    /\ pc = "parse"
    /\ pc' = "client"
    /\ fatal' = fatal
    /\ UNCHANGED <<script, otherVars, parseVars, batch_size, runVars>>

\* after the last line: "if not tasks: raise ValueError", caught as fatal
EndOfFile ==
    /\ script = "forward"
    /\ pc = "parse"
    /\ IF tasks = <<>> THEN Abort("no_tasks") ELSE pc' = "client" /\ fatal' = fatal
    /\ UNCHANGED <<script, otherVars, parseVars, batch_size, runVars>>

(***************************************************************************)
(* forward_script.main, sections 3 to 5.                                   *)
(***************************************************************************)
\* the integers LOG_CHANNEL_ID may read as: 0 makes send_log print only
LogIds == {0, 1}

\* how a remote call made by a task ends: it returns, or raises
\* FloodWaitError with its seconds, or raises another exception
Outcomes(site, id) ==
    {NoException}
        \cup {FloodWaitError(r, site, id) : r \in 1..MaxRetry}
        \cup {OtherError(site, id)}

\* the statements of the try block of a task and of its except clauses
TaskPcs ==
    {"log_header", "send_text", "log_sent", "log_range", "batch", "log_batch", "items",
     "log_flood", "log_error"}

\* a remote call is issued
Issue(kind, what, ok) ==
    /\ recent' = <<recent[2],
                   [kind |-> kind, what |-> what, ok |-> ok, gap |-> sinceCall,
                    dgap |-> sinceDispatch, first |-> ~dispatched, owed |-> owed]>>
    /\ sinceCall' = 0
    /\ sinceDispatch' = IF kind \in DispatchKinds THEN 0 ELSE sinceDispatch
    /\ order' = IF pc \in TaskPcs /\ (order = <<>> \/ order[Len(order)] # i)
                THEN Append(order, i) ELSE order
    /\ batchLogs' = CASE kind = "fetch" -> 0
                       [] kind = "log" /\ pc \in {"log_batch", "items"} -> batchLogs + 1
                       [] OTHER -> batchLogs

\* asyncio.sleep(d)
Sleep(d) ==
    /\ sinceCall' = sinceCall + d
    /\ sinceDispatch' = sinceDispatch + d
    /\ owed' = Max(0, owed - d)
    /\ UNCHANGED <<recent, order, batchLogs>>

\* wait_time without the margin
wait_time_no_margin(e) == e.seconds

\* wait_time = e.seconds + 5
wait_time(e) == e.seconds + FLOOD_MARGIN

\* Handle returning from main on an error that is no throttle
HandleAndReturn(e) ==
    /\ caught' = e
    /\ stats' = [stats EXCEPT !.errors = @ + 1]
    /\ failedCalls' = failedCalls + 1
    /\ owed' = IF e.type = "flood" THEN e.seconds + FLOOD_MARGIN ELSE owed
    /\ pc' = IF e.type = "flood" THEN "log_flood" ELSE "exit"

\* Handle counting the error twice
HandleCountsTwice(e) ==
    /\ caught' = e
    /\ stats' = [stats EXCEPT !.errors = @ + 2]
    /\ failedCalls' = failedCalls + 1
    /\ owed' = IF e.type = "flood" THEN e.seconds + FLOOD_MARGIN ELSE owed
    /\ pc' = IF e.type = "flood" THEN "log_flood" ELSE "log_error"

\* the except clauses of the task loop: count the error and go to report it
Handle(e) ==
    /\ caught' = e
    /\ stats' = [stats EXCEPT !.errors = @ + 1]
    /\ failedCalls' = failedCalls + 1
    /\ owed' = IF e.type = "flood" THEN e.seconds + FLOOD_MARGIN ELSE owed
    /\ pc' = IF e.type = "flood" THEN "log_flood" ELSE "log_error"

\* client = TelegramClient(...); stats = {...}; int(LOG_CHANNEL_ID).
\* The locals of the parse loop are dead from here on and are reset.
MakeClient ==
    /\ script = "forward"
    /\ pc = "client"
    /\ client' = "new"
    /\ nread' = 0
    /\ key' = ""
    /\ value' = <<>>
    /\ start_id' = None
    /\ defs' = <<>>
    /\ stats' = NoStats
    /\ \E valid \in BOOLEAN :
        IF valid
        THEN /\ log_channel_int_id' \in LogIds
             /\ pc' = "connect"
             /\ fatal' = fatal
        ELSE /\ log_channel_int_id' = log_channel_int_id
             /\ Abort("log_id")
    /\ UNCHANGED <<script, otherVars, tasks, all_message_ids, endsPending, rangesClosed, batch_size,
                   source, loopVars, clockVars, historyVars>>

\* "async with client": connecting may raise, and nothing catches it
Connect ==
    /\ script = "forward"
    /\ pc = "connect"
    /\ \E ok \in BOOLEAN :
        IF ok
        THEN client' = "connected" /\ pc' = "log_init" /\ fatal' = fatal
        ELSE client' = client /\ Abort("crash")
    /\ UNCHANGED <<script, otherVars, parseVars, batch_size, log_channel_int_id, source, stats,
                   loopVars, clockVars, historyVars>>

LogPcs ==
    {"log_init", "log_connected", "log_verified", "log_fatal", "log_header", "log_range",
     "log_sent", "log_batch", "log_flood", "log_error", "log_summary"}

\* AfterLog without the return after the fatal error of the channels
AfterLogNoReturn(p) ==
    CASE p = "log_init" -> "get_me"
      [] p = "log_connected" -> "resolve"
      [] p = "log_verified" -> "loop"
      [] p = "log_fatal" -> "loop"
      [] p = "log_header" -> IF tasks[i].type = "message" THEN "send_text" ELSE "log_range"
      [] p = "log_range" -> "range_start"
      [] p = "log_sent" -> "loop"
      [] p = "log_batch" -> "items"
      [] p = "log_flood" -> "flood_sleep"
      [] p = "log_error" -> "loop"
      [] p = "log_summary" -> "exit"

\* the statement after each send_log
AfterLog(p) ==
    CASE p = "log_init" -> "get_me"
      [] p = "log_connected" -> "resolve"
      [] p = "log_verified" -> "loop"
      [] p = "log_fatal" -> "exit"
      [] p = "log_header" -> IF tasks[i].type = "message" THEN "send_text" ELSE "log_range"
      [] p = "log_range" -> "range_start"
      [] p = "log_sent" -> "loop"
      [] p = "log_batch" -> "items"
      [] p = "log_flood" -> "flood_sleep"
      [] p = "log_error" -> "loop"
      [] p = "log_summary" -> "exit"

\* the characters that are markup in the parse_mode='html' of send_log
HtmlReserved == {"<", ">", "&"}

HasReserved(t, reserved) == \E j \in 1..Len(t) : t[j] \in reserved

\* the texts the platform supplies: me.first_name and me.last_name, the
\* title of an entity, str(e) of an exception; with or without a character
\* that is markup in HTML
PlatformTexts == {<<"a">>, <<"a", "<", "b">>}

\* the variable part of the text of each send_log, as the f-string puts it
\* into the text: the names of the account, the titles of the channels,
\* str(e) of what get_entity raised ("except ValueError" has a fixed text,
\* and so has the failure of int(); str(e) of the AttributeError of a
\* missing title has no markup), the first 50 characters of the content
\* of a message task, and str(e) of the error of a task.  The other logs
\* insert numbers and names of types only.
log_text(p, platform) ==
    CASE p = "log_connected" -> platform
      [] p = "log_verified" -> platform
      [] p = "log_fatal" ->
            IF recent[2].kind = "get_entity" /\ ~recent[2].ok THEN platform ELSE <<>>
      [] p = "log_sent" -> SubSeq(tasks[i].content, 1, Min(50, Len(tasks[i].content)))
      [] p = "log_error" -> platform
      [] OTHER -> <<>>

\* send_log: print only when there is no log channel id; otherwise one
\* send_message to the log channel, whose failure is caught and printed
send_log ==
    IF log_channel_int_id = 0
    THEN UNCHANGED <<sinceCall, sinceDispatch, recent, order, batchLogs, rawPublished>>
    ELSE /\ \E ok \in BOOLEAN : Issue("log", pc, ok)
         /\ \E platform \in PlatformTexts :
                rawPublished' =
                    (rawPublished \/ HasReserved(log_text(pc, platform), HtmlReserved))

\* every "await send_log(...)" of main, then the statement that follows it.
\* The text of two logs is built from attributes of what the platform
\* returned, and building it raises AttributeError before send_log is
\* called when the attribute is missing: me.first_name when get_me returned
\* None, which nothing catches, and the title of an entity, inside the try
\* of the resolution, whose "except Exception" goes to the fatal log.
SendLog ==
    /\ script = "forward"
    /\ pc \in LogPcs
    /\ \/ /\ send_log
          /\ pc' = AfterLog(pc)
          /\ fatal' = fatal
          /\ client' = IF AfterLog(pc) = "exit" THEN "disconnected" ELSE client
          /\ summaries' = IF pc = "log_summary" THEN summaries + 1 ELSE summaries
       \/ /\ pc = "log_connected"
          /\ Abort("crash")
          /\ client' = "disconnected"
          /\ UNCHANGED <<sinceCall, sinceDispatch, recent, order, batchLogs, rawPublished,
                         summaries>>
       \/ /\ pc = "log_verified"
          /\ pc' = "log_fatal"
          /\ fatal' = "resolve"
          /\ UNCHANGED <<sinceCall, sinceDispatch, recent, order, batchLogs, rawPublished,
                         summaries, client>>
    /\ UNCHANGED <<script, otherVars, parseVars, batch_size, log_channel_int_id,
                   source, stats, loopVars, owed, dispatched, failedCalls, delivered,
                   notFound, seen, relayedNow, relayedTwice, batches>>

\* me = await client.get_me(): an exception is caught nowhere
GetMe ==
    /\ script = "forward"
    /\ pc = "get_me"
    /\ \E ok \in BOOLEAN :
        /\ Issue("get_me", "", ok)
        /\ IF ok
           THEN pc' = "log_connected" /\ fatal' = fatal /\ client' = client
           ELSE Abort("crash") /\ client' = "disconnected"
    /\ UNCHANGED <<script, otherVars, parseVars, batch_size, log_channel_int_id, source, stats,
                   loopVars, owed, historyVars>>

\* source_id = int(SOURCE_CHANNEL); destination_id = int(DESTINATION_CHANNEL)
ConvertIds ==
    /\ script = "forward"
    /\ pc = "resolve"
    /\ \E valid \in BOOLEAN :
        IF valid
        THEN pc' = "resolve_source" /\ fatal' = fatal
        ELSE pc' = "log_fatal" /\ fatal' = "resolve"
    /\ UNCHANGED <<script, otherVars, parseVars, batch_size, runVars>>

ResolvePcs == {"resolve_source", "resolve_destination", "resolve_log"}

AfterResolve(p) ==
    CASE p = "resolve_source" -> "resolve_destination"
      [] p = "resolve_destination" -> "resolve_log"
      [] p = "resolve_log" -> "log_verified"

\* the three "await client.get_entity(...)": a failure of any is fatal
ResolveEntity ==
    /\ script = "forward"
    /\ pc \in ResolvePcs
    /\ \E ok \in BOOLEAN :
        /\ Issue("get_entity", pc, ok)
        /\ IF ok
           THEN pc' = AfterResolve(pc) /\ fatal' = fatal
           ELSE pc' = "log_fatal" /\ fatal' = "resolve"
    /\ UNCHANGED <<script, otherVars, parseVars, batch_size, log_channel_int_id, client,
                   source, stats, loopVars, owed, historyVars>>

\* "for i, task in enumerate(tasks, 1)": the next task, or the final report.
\* The locals of the task left behind are dead and are reset.
NextTask ==
    /\ script = "forward"
    /\ pc = "loop"
    /\ IF i < Len(tasks)
       THEN i' = i + 1 /\ pc' = "log_header"
       ELSE i' = i /\ pc' = "log_summary"
    /\ batch_start' = 0
    /\ valid_messages' = <<>>
    /\ k' = 0
    /\ caught' = NoException
    /\ seen' = {}
    /\ relayedNow' = {}
    /\ batches' = <<>>
    /\ batchLogs' = 0
    /\ UNCHANGED <<script, otherVars, fatal, parseVars, batch_size, log_channel_int_id,
                   client, source, stats, sinceCall, sinceDispatch, owed, recent, order,
                   dispatched, failedCalls, delivered, notFound, relayedTwice, summaries,
                   rawPublished>>

\* await client.send_message(destination_entity, task['content'])
SendText ==
    /\ script = "forward"
    /\ pc = "send_text"
    /\ \E e \in Outcomes("send_text", 0) :
        /\ Issue("send_text", "", e = NoException)
        /\ IF e = NoException
           THEN /\ stats' = [stats EXCEPT !.polls_forwarded = @ + 1]
                /\ delivered' = delivered + 1
                /\ pc' = "log_sent"
                /\ UNCHANGED <<caught, failedCalls, owed>>
           ELSE Handle(e) /\ delivered' = delivered
    /\ dispatched' = TRUE
    /\ UNCHANGED <<script, otherVars, fatal, parseVars, batch_size, log_channel_int_id,
                   client, source, i, batch_start, valid_messages, k, notFound, seen,
                   relayedNow, relayedTwice, summaries, batches, rawPublished>>

\* start, end = task['start'], task['end']; the first batch_start of
\* range(start, end + 1, BATCH_SIZE)
StartRange ==
    /\ script = "forward"
    /\ pc = "range_start"
    /\ batch_start' = tasks[i].start
    /\ pc' = "batch"
    /\ UNCHANGED <<script, otherVars, fatal, parseVars, batch_size, log_channel_int_id,
                   client, source, stats, i, valid_messages, k, caught, clockVars,
                   historyVars>>

\* batch_end reaching one identifier further
batch_end_overlapping == Min(batch_start + batch_size, tasks[i].end)

\* batch_end = min(batch_start + BATCH_SIZE - 1, end)
batch_end == Min(batch_start + batch_size - 1, tasks[i].end)

\* valid_messages = [m for m in messages if m], for the identifiers a..b
RECURSIVE ValidMessages(_, _, _)
ValidMessages(m, a, b) ==
    IF a > b THEN <<>>
    ELSE (IF m[a] = "none" THEN <<>> ELSE <<[id |-> a, poll |-> m[a] = "poll"]>>)
             \o ValidMessages(m, a + 1, b)

\* messages = await client.get_messages(source_entity, ids=batches)
Fetch ==
    /\ script = "forward"
    /\ pc = "batch"
    /\ batch_start <= tasks[i].end
    /\ \E e \in Outcomes("fetch", 0) :
        /\ Issue("fetch", "", e = NoException)
        /\ IF e = NoException
           THEN \E m \in [batch_start..batch_end -> Kinds] :
                /\ \A id \in batch_start..batch_end :
                        source[id] # "unknown" => m[id] = source[id]
                /\ source' = [id \in 1..MaxId |->
                                IF id \in batch_start..batch_end THEN m[id] ELSE source[id]]
                /\ valid_messages' = ValidMessages(m, batch_start, batch_end)
                /\ k' = 1
                /\ notFound' = notFound
                                + Cardinality({id \in batch_start..batch_end : m[id] = "none"})
                /\ seen' = seen \cup {id \in batch_start..batch_end : m[id] = "none"}
                /\ pc' = IF ValidMessages(m, batch_start, batch_end) # <<>>
                         THEN "log_batch" ELSE "items"
                /\ UNCHANGED <<caught, stats, failedCalls, owed>>
           ELSE Handle(e) /\ UNCHANGED <<source, valid_messages, k, notFound, seen>>
    /\ dispatched' = TRUE
    /\ batches' = Append(batches, PyRange(batch_start, batch_end))
    /\ UNCHANGED <<script, otherVars, fatal, parseVars, batch_size, log_channel_int_id,
                   client, i, batch_start, delivered, relayedNow, relayedTwice, summaries,
                   rawPublished>>

\* the batch loop is over: the task is done
EndRange ==
    /\ script = "forward"
    /\ pc = "batch"
    /\ batch_start > tasks[i].end
    /\ pc' = "loop"
    /\ UNCHANGED <<script, otherVars, fatal, parseVars, batch_size, runVars>>

\* "if message.poll: await message.forward_to(destination_entity)"
Relay ==
    /\ script = "forward"
    /\ pc = "items"
    /\ k <= Len(valid_messages)
    /\ valid_messages[k].poll
    /\ LET id == valid_messages[k].id
       IN  /\ \E e \in Outcomes("relay", id) :
                /\ Issue("relay", "", e = NoException)
                /\ IF e = NoException
                   THEN /\ stats' = [stats EXCEPT !.polls_forwarded = @ + 1]
                        /\ delivered' = delivered + 1
                        /\ relayedNow' = relayedNow \cup {id}
                        /\ relayedTwice' = (relayedTwice \/ id \in relayedNow)
                        /\ pc' = "item_sleep"
                        /\ UNCHANGED <<caught, failedCalls, owed>>
                   ELSE Handle(e) /\ UNCHANGED <<delivered, relayedNow, relayedTwice>>
           /\ seen' = seen \cup {id}
    /\ dispatched' = TRUE
    /\ UNCHANGED <<script, otherVars, fatal, parseVars, batch_size, log_channel_int_id,
                   client, source, i, batch_start, valid_messages, k, notFound, summaries,
                   batches, rawPublished>>

\* ItemSleep without the sleep
ItemNoSleep ==
    /\ script = "forward"
    /\ pc = "item_sleep"
    /\ Sleep(0)
    /\ k' = k + 1
    /\ pc' = "items"
    /\ UNCHANGED <<script, otherVars, fatal, parseVars, batch_size, log_channel_int_id,
                   client, source, stats, i, batch_start, valid_messages, caught,
                   historyVars>>

\* await asyncio.sleep(delay), delay = random.uniform(MIN, MAX)
ItemSleep ==
    /\ script = "forward"
    /\ pc = "item_sleep"
    /\ \E delay \in MIN_DELAY_SECONDS..MAX_DELAY_SECONDS : Sleep(delay)
    /\ k' = k + 1
    /\ pc' = "items"
    /\ UNCHANGED <<script, otherVars, fatal, parseVars, batch_size, log_channel_int_id,
                   client, source, stats, i, batch_start, valid_messages, caught,
                   historyVars>>

\* SkipNonPoll publishing the skip to the log channel
SkipNonPollLogged ==
    /\ script = "forward"
    /\ pc = "items"
    /\ k <= Len(valid_messages)
    /\ ~valid_messages[k].poll
    /\ stats' = [stats EXCEPT !.non_polls_skipped = @ + 1]
    /\ seen' = seen \cup {valid_messages[k].id}
    /\ k' = k + 1
    /\ Issue("log", "log_skip", TRUE)
    /\ UNCHANGED <<script, otherVars, pc, fatal, parseVars, batch_size, log_channel_int_id, client,
                   source, i, batch_start, valid_messages, caught, owed, dispatched,
                   failedCalls, delivered, notFound, relayedNow, relayedTwice, summaries,
                   batches, rawPublished>>

\* "else: stats['non_polls_skipped'] += 1"
SkipNonPoll ==
    /\ script = "forward"
    /\ pc = "items"
    /\ k <= Len(valid_messages)
    /\ ~valid_messages[k].poll
    /\ stats' = [stats EXCEPT !.non_polls_skipped = @ + 1]
    /\ seen' = seen \cup {valid_messages[k].id}
    /\ k' = k + 1
    /\ UNCHANGED <<script, otherVars, pc, fatal, parseVars, batch_size, log_channel_int_id, client,
                   source, i, batch_start, valid_messages, caught, clockVars, dispatched,
                   failedCalls, delivered, notFound, relayedNow, relayedTwice, summaries,
                   batches, rawPublished>>

\* await asyncio.sleep(1) after the messages of a batch, then the next batch
BatchPause ==
    /\ script = "forward"
    /\ pc = "items"
    /\ k > Len(valid_messages)
    /\ Sleep(BATCH_PAUSE)
    /\ batch_start' = batch_start + batch_size
    /\ pc' = "batch"
    /\ UNCHANGED <<script, otherVars, fatal, parseVars, batch_size, log_channel_int_id,
                   client, source, stats, i, valid_messages, k, caught, historyVars>>

\* await asyncio.sleep(wait_time) in "except FloodWaitError"
FloodSleep ==
    /\ script = "forward"
    /\ pc = "flood_sleep"
    /\ Sleep(wait_time(caught))
    /\ pc' = "loop"
    /\ UNCHANGED <<script, otherVars, fatal, parseVars, batch_size, log_channel_int_id,
                   client, source, stats, loopVars, historyVars>>

(***************************************************************************)
(* delete_script.main, sections 1 and 2.                                   *)
(***************************************************************************)
DeleteValidateConfig ==
    /\ script = "delete"
    /\ pc = "start"
    /\ \E missing \in BOOLEAN :
        IF missing THEN Abort("config") ELSE pc' = "open" /\ fatal' = fatal
    /\ UNCHANGED <<script, otherVars, parseVars, batch_size, runVars>>

\* open('bulkdelete/delete_range.txt'): any exception is fatal
DeleteOpenFile ==
    /\ script = "delete"
    /\ pc = "open"
    /\ \E found \in BOOLEAN :
        IF found THEN pc' = "parse" /\ fatal' = fatal ELSE Abort("nofile")
    /\ UNCHANGED <<script, otherVars, parseVars, batch_size, runVars>>

\* one turn of "for line in lines" of delete_script on a key: value line
DeleteParseKeyValue(ln) ==
    LET kw == Lower(ln.key)
        v == Strip(ln.value)
        pending == start_id # None
        id == delete_parse_id(v)
    IN  /\ key' = kw
        /\ value' = v
        /\ tasks' = tasks
        /\ defs' = defs
        /\ endsPending' = IF kw = "end" /\ pending THEN endsPending + 1 ELSE endsPending
        /\ CASE kw = "start" ->
                    IF id.err
                    THEN Abort("bad_id") /\ UNCHANGED <<start_id, all_message_ids, rangesClosed>>
                    ELSE /\ start_id' = Some(id.val)
                         /\ UNCHANGED <<all_message_ids, rangesClosed, pc, fatal>>
             [] kw = "end" /\ pending ->
                    IF id.err
                    THEN Abort("bad_id") /\ UNCHANGED <<start_id, all_message_ids, rangesClosed>>
                    ELSE /\ all_message_ids' = all_message_ids \o PyRange(start_id[1], id.val)
                         /\ start_id' = None
                         /\ rangesClosed' = rangesClosed + 1
                         /\ UNCHANGED <<pc, fatal>>
             [] OTHER -> UNCHANGED <<start_id, all_message_ids, rangesClosed, pc, fatal>>

DeleteReadLine ==
    /\ script = "delete"
    /\ pc = "parse"
    /\ nread < MaxLines
    /\ nread' = nread + 1
    /\ \E ln \in Lines :
        IF Skipped(ln) THEN ParseSkip(ln) ELSE DeleteParseKeyValue(ln)
    /\ UNCHANGED <<script, otherVars, batch_size, runVars>>

\* after the last line: "if not all_message_ids: raise ValueError"
DeleteEndOfFile ==
    /\ script = "delete"
    /\ pc = "parse"
    /\ IF all_message_ids = <<>> THEN Abort("no_tasks") ELSE pc' = "client" /\ fatal' = fatal
    /\ UNCHANGED <<script, otherVars, parseVars, batch_size, runVars>>

(***************************************************************************)
(* delete_script.main, sections 3 and 4.                                   *)
(***************************************************************************)
\* client = TelegramClient(...); "async with client": connecting may raise,
\* and nothing catches it; the client is built by then.  The locals of the
\* parse loop are dead from here on and are reset.
DeleteConnect ==
    /\ script = "delete"
    /\ pc = "client"
    /\ nread' = 0
    /\ key' = ""
    /\ value' = <<>>
    /\ start_id' = None
    /\ \E ok \in BOOLEAN :
        IF ok
        THEN client' = "connected" /\ pc' = "get_entity" /\ fatal' = fatal
        ELSE client' = "new" /\ Abort("crash")
    /\ UNCHANGED <<script, tasks, all_message_ids, endsPending, rangesClosed, defs,
                   batch_size, log_channel_int_id, source, stats, loopVars, clockVars,
                   historyVars, otherVars>>

\* target_entity = await client.get_entity(target_channel_id) and the
\* print of target_entity.title in the same try: a failure of the call and
\* an entity without a title are fatal
DeleteGetEntity ==
    /\ script = "delete"
    /\ pc = "get_entity"
    /\ \E ok, titled \in BOOLEAN :
        /\ Issue("get_entity", pc, ok)
        /\ IF ok /\ titled
           THEN pc' = "chunks" /\ fatal' = fatal /\ client' = client
           ELSE Abort("resolve") /\ client' = "disconnected"
    /\ UNCHANGED <<script, parseVars, batch_size, log_channel_int_id, source, stats,
                   loopVars, owed, historyVars, otherVars>>

\* [ids[j:j + size] for j in range(0, len(ids), size)]
Chunked(ids, size) ==
    [c \in 1..((Len(ids) + size - 1) \div size) |->
        SubSeq(ids, (c - 1) * size + 1, Min(c * size, Len(ids)))]

\* chunks = [all_message_ids[i:i + chunk_size] for i in range(...)]
MakeChunks ==
    /\ script = "delete"
    /\ pc = "chunks"
    /\ chunks' = Chunked(all_message_ids, batch_size)
    /\ i' = 0
    /\ pc' = "chunk_loop"
    /\ UNCHANGED <<script, fatal, parseVars, batch_size, log_channel_int_id, client, source,
                   stats, batch_start, valid_messages, k, caught, clockVars, historyVars,
                   submitted, pureVars, pollVars>>

\* "for i, chunk in enumerate(chunks, 1)": the next chunk, or the end of
\* the deletion
NextChunk ==
    /\ script = "delete"
    /\ pc = "chunk_loop"
    /\ IF i < Len(chunks)
       THEN i' = i + 1 /\ pc' = "delete_messages" /\ client' = client
       ELSE i' = i /\ pc' = "exit" /\ client' = "disconnected"
    /\ caught' = NoException
    /\ UNCHANGED <<script, fatal, parseVars, batch_size, log_channel_int_id, source, stats,
                   batch_start, valid_messages, k, clockVars, historyVars, otherVars>>

\* how delete_messages ends: it returns, or raises
\* MessageDeleteForbiddenError, FloodWaitError or another exception
MessageDeleteForbiddenError == [type |-> "forbidden", seconds |-> 0, site |-> "delete", id |-> 0]

DeleteOutcomes ==
    {NoException, MessageDeleteForbiddenError, OtherError("delete", 0)}
        \cup {FloodWaitError(r, "delete", 0) : r \in 1..MaxRetry}

\* await client.delete_messages(target_entity, chunk) and its except
\* clauses: "break" on MessageDeleteForbiddenError
DeleteMessages ==
    /\ script = "delete"
    /\ pc = "delete_messages"
    /\ \E e \in DeleteOutcomes :
        /\ Issue("delete", "", e = NoException)
        /\ caught' = e
        /\ owed' = IF e.type = "flood" THEN e.seconds + FLOOD_MARGIN ELSE owed
        /\ pc' = CASE e.type = "forbidden" -> "exit"
                    [] e.type = "flood" -> "flood_sleep"
                    [] OTHER -> "chunk_pause"
        /\ client' = IF e.type = "forbidden" THEN "disconnected" ELSE client
    /\ submitted' = Append(submitted, i)
    /\ UNCHANGED <<script, fatal, parseVars, batch_size, log_channel_int_id, source, stats,
                   i, batch_start, valid_messages, k, historyVars, chunks, pureVars,
                   pollVars>>

\* DeleteFloodSleep giving the throttled chunk to delete_messages once more
DeleteFloodSleepRetries ==
    /\ script = "delete"
    /\ pc = "flood_sleep"
    /\ Sleep(caught.seconds + FLOOD_MARGIN)
    /\ pc' = IF Len(submitted) <= Len(chunks) THEN "delete_messages" ELSE "chunk_pause"
    /\ UNCHANGED <<script, fatal, parseVars, batch_size, log_channel_int_id, client, source,
                   stats, loopVars, historyVars, otherVars>>

\* await asyncio.sleep(e.seconds + 5) in "except FloodWaitError"
DeleteFloodSleep ==
    /\ script = "delete"
    /\ pc = "flood_sleep"
    /\ Sleep(caught.seconds + FLOOD_MARGIN)
    /\ pc' = "chunk_pause"
    /\ UNCHANGED <<script, fatal, parseVars, batch_size, log_channel_int_id, client, source,
                   stats, loopVars, historyVars, otherVars>>

\* await asyncio.sleep(2) after every chunk that did not break the loop
ChunkPause ==
    /\ script = "delete"
    /\ pc = "chunk_pause"
    /\ Sleep(CHUNK_PAUSE)
    /\ pc' = "chunk_loop"
    /\ UNCHANGED <<script, fatal, parseVars, batch_size, log_channel_int_id, client, source,
                   stats, loopVars, historyVars, otherVars>>

(***************************************************************************)
(* send_polls.process_content.                                             *)
(***************************************************************************)
\* "if not BOT_TOKEN or not CHAT_ID: return"; LOG_CHANNEL_ID is set (1) or
\* not (0)
PollsValidateConfig ==
    /\ script = "polls"
    /\ pc = "start"
    /\ \E missing \in BOOLEAN :
        IF missing
        THEN Abort("config") /\ log_channel_int_id' = log_channel_int_id
        ELSE pc' = "log_started" /\ fatal' = fatal /\ log_channel_int_id' \in LogIds
    /\ UNCHANGED <<script, parseVars, batch_size, client, source, stats, loopVars, clockVars,
                   historyVars, otherVars>>

PollLogPcs ==
    {"log_started", "log_no_file", "log_empty", "log_found", "log_failed", "log_final"}

\* the statement after each log_to_telegram
PollAfterLog(p) ==
    CASE p = "log_started" -> "find_json_file"
      [] p = "log_no_file" -> "exit"
      [] p = "log_empty" -> "exit"
      [] p = "log_found" -> "item_loop"
      [] p = "log_failed" -> "item_loop"
      [] p = "log_final" -> "exit"

\* the message of each log_to_telegram, with the reserved characters that
\* its text has: the full stops of the sentences, the '.json' of the file
\* name, the '#' of the item number and the text of the exception
log_message(p) ==
    CASE p = "log_started" -> <<"d", ".">>
      [] p = "log_no_file" -> <<".", "j", ".">>
      [] p = "log_empty" -> <<"x", ".", "j", ".">>
      [] p = "log_found" -> <<"x", ".", "j", ".">>
      [] p = "log_failed" -> <<"#", ".", "e", "|", "\\">>
      [] p = "log_final" -> <<"x", ".", "j", ".">>

\* a text of parse_mode MARKDOWN_V2 in which every reserved character
\* follows a backslash that escapes it
RECURSIVE MarkdownEscaped(_)
MarkdownEscaped(t) ==
    IF t = <<>> THEN TRUE
    ELSE IF Head(t) = "\\" THEN Len(t) >= 2 /\ MarkdownEscaped(Tail(Tail(t)))
    ELSE Head(t) \notin escape_chars /\ MarkdownEscaped(Tail(t))

\* log_to_telegram raising what bot.send_message raises
log_to_telegram_raising(message) ==
    IF log_channel_int_id = 0
    THEN UNCHANGED <<sinceCall, sinceDispatch, recent, order, batchLogs, rawPublished, fatal>>
    ELSE \E ok \in BOOLEAN :
            /\ Issue("log", pc, ok)
            /\ rawPublished' = (rawPublished \/ ~MarkdownEscaped(escape_markdown_v2(message)))
            /\ fatal' = IF ok THEN fatal ELSE "crash"

\* log_to_telegram: nothing without LOG_CHANNEL_ID; otherwise one
\* send_message of the escaped message, whose failure is caught and printed
log_to_telegram(message) ==
    IF log_channel_int_id = 0
    THEN UNCHANGED <<sinceCall, sinceDispatch, recent, order, batchLogs, rawPublished, fatal>>
    ELSE \E ok \in BOOLEAN :
            /\ Issue("log", pc, ok)
            /\ rawPublished' = (rawPublished \/ ~MarkdownEscaped(escape_markdown_v2(message)))
            /\ fatal' = fatal

\* every "await log_to_telegram(...)" of process_content, then the
\* statement that follows it
PollsLog ==
    /\ script = "polls"
    /\ pc \in PollLogPcs
    /\ log_to_telegram(log_message(pc))
    /\ pc' = IF fatal' = "crash" THEN "exit" ELSE PollAfterLog(pc)
    /\ summaries' = IF pc = "log_final" THEN summaries + 1 ELSE summaries
    /\ UNCHANGED <<script, parseVars, batch_size, log_channel_int_id, client, source, stats,
                   loopVars, owed, dispatched, failedCalls, delivered, notFound, seen,
                   relayedNow, relayedTwice, batches, otherVars>>

\* json_file = find_json_file(): None ends the run after a log
FindJsonFile ==
    /\ script = "polls"
    /\ pc = "find_json_file"
    /\ \E found \in BOOLEAN :
        IF found
        THEN pc' = "load_items" /\ fatal' = fatal
        ELSE pc' = "log_no_file" /\ fatal' = "nofile"
    /\ UNCHANGED <<script, parseVars, batch_size, runVars, otherVars>>

\* item_list = load_items(json_file): load_items returns [] for a missing
\* file and for invalid JSON and raises what else open() and json.load
\* raise (a file that is no UTF-8, a directory), which nothing catches.
\* A value that is false ends the run after a log; len(item_list) in the
\* text of the next log raises TypeError, which nothing catches, on a value
\* that is true and has no length (a number, true).
LoadItems ==
    /\ script = "polls"
    /\ pc = "load_items"
    /\ \E loaded \in {"raises", "unsized", "sized"} :
        IF loaded = "sized"
        THEN /\ nitems' \in 0..MaxItems
             /\ IF nitems' = 0
                THEN pc' = "log_empty" /\ fatal' = "no_tasks"
                ELSE pc' = "log_found" /\ fatal' = fatal
        ELSE /\ nitems' = nitems
             /\ Abort("crash")
    /\ UNCHANGED <<script, parseVars, batch_size, runVars, deleteVars, pureVars, item, sends>>

\* "for i, item in enumerate(item_list, start=1)" and
\* content_type = item.get('type', 'poll'), which raises on an element that
\* is no dict before the try block is entered
NextItem ==
    /\ script = "polls"
    /\ pc = "item_loop"
    /\ IF i < nitems
       THEN /\ i' = i + 1
            /\ item' \in Items
            /\ IF item'.form = "nondict"
               THEN Abort("crash")
               ELSE /\ fatal' = fatal
                    /\ pc' = CASE item'.type = "message" -> "send_message"
                                [] item'.type = "poll" -> "send_question"
                                [] OTHER -> "item_pause"
       ELSE /\ pc' = "log_final"
            /\ UNCHANGED <<i, item, fatal>>
    /\ sends' = NoSends
    /\ UNCHANGED <<script, parseVars, batch_size, log_channel_int_id, client, source, stats,
                   batch_start, valid_messages, k, caught, clockVars, historyVars,
                   deleteVars, pureVars, nitems>>

\* what the variables of send_polls that a send does not touch keep
PollSendUnchanged ==
    UNCHANGED <<script, fatal, parseVars, batch_size, log_channel_int_id, client, source,
                stats, loopVars, owed, historyVars, deleteVars, pureVars, nitems, item>>

\* bot.send_message(chat_id=CHAT_ID, text=item['text'], parse_mode=HTML);
\* a missing 'text' raises KeyError
SendMessageItem ==
    /\ script = "polls"
    /\ pc = "send_message"
    /\ IF ~item.complete
       THEN /\ pc' = "log_failed"
            /\ sends' = [sends EXCEPT !.message = "KeyError"]
            /\ UNCHANGED <<sinceCall, sinceDispatch, recent, order, batchLogs>>
       ELSE \E ok \in BOOLEAN :
            /\ Issue("send_message", "", ok)
            /\ sends' = [sends EXCEPT !.message = IF ok THEN "ok" ELSE "failed"]
            /\ pc' = IF ok THEN "item_pause" ELSE "log_failed"
    /\ PollSendUnchanged

\* escape_markdown_v2(item['question']) and the send of the question text
\* of a poll item: a missing 'question' raises KeyError, and re.sub raises
\* TypeError on a question that is no string, both before any call
SendQuestion ==
    /\ script = "polls"
    /\ pc = "send_question"
    /\ IF ~item.complete \/ item.question # "text"
       THEN /\ pc' = "log_failed"
            /\ sends' = [sends EXCEPT
                            !.question = IF ~item.complete THEN "KeyError" ELSE "TypeError"]
            /\ UNCHANGED <<sinceCall, sinceDispatch, recent, order, batchLogs>>
       ELSE \E ok \in BOOLEAN :
            /\ Issue("send_question", "", ok)
            /\ sends' = [sends EXCEPT !.question = IF ok THEN "ok" ELSE "failed"]
            /\ pc' = IF ok THEN "question_sleep" ELSE "log_failed"
    /\ PollSendUnchanged

\* await asyncio.sleep(1)
QuestionSleep ==
    /\ script = "polls"
    /\ pc = "question_sleep"
    /\ Sleep(QUESTION_PAUSE)
    /\ pc' = "send_poll"
    /\ UNCHANGED <<script, fatal, parseVars, batch_size, log_channel_int_id, client, source,
                   stats, loopVars, historyVars, otherVars>>

\* how the send_poll with the explanation ends: it returns, or raises
\* BadRequest with or without "message is too long" in its text, or raises
\* another exception
PollOutcomes == {"ok", "too_long", "bad_request", "failed"}

\* SendPoll falling back on every BadRequest of an item with explanation
SendPollFallsBackAlways ==
    /\ script = "polls"
    /\ pc = "send_poll"
    /\ IF ~item.options
       THEN /\ pc' = "log_failed"
            /\ sends' = [sends EXCEPT !.first = "KeyError"]
            /\ UNCHANGED <<sinceCall, sinceDispatch, recent, order, batchLogs>>
       ELSE \E e \in PollOutcomes :
            /\ Issue("send_poll", "", e = "ok")
            /\ sends' = [sends EXCEPT !.first = e]
            /\ pc' = CASE e = "ok" -> "item_pause"
                        [] e \in {"too_long", "bad_request"} /\ item.explanation \in Truthy ->
                                "fallback_poll"
                        [] OTHER -> "log_failed"
    /\ PollSendUnchanged

\* bot.send_poll(..., explanation=explanation_text, ...) and
\* "except BadRequest": the fallback only if "message is too long" is in
\* the text of the error and explanation_text is true.  A missing 'options'
\* or 'correct_option' raises KeyError while the arguments of the call are
\* built, so that no call is made.
SendPoll ==
    /\ script = "polls"
    /\ pc = "send_poll"
    /\ IF ~item.options
       THEN /\ pc' = "log_failed"
            /\ sends' = [sends EXCEPT !.first = "KeyError"]
            /\ UNCHANGED <<sinceCall, sinceDispatch, recent, order, batchLogs>>
       ELSE \E e \in PollOutcomes :
            /\ Issue("send_poll", "", e = "ok")
            /\ sends' = [sends EXCEPT !.first = e]
            /\ pc' = CASE e = "ok" -> "item_pause"
                        [] e = "too_long" /\ item.explanation \in Truthy -> "fallback_poll"
                        [] OTHER -> "log_failed"
    /\ PollSendUnchanged

\* bot.send_poll(...) without the explanation, in the except clause
SendFallbackPoll ==
    /\ script = "polls"
    /\ pc = "fallback_poll"
    /\ \E ok \in BOOLEAN :
        /\ Issue("send_poll", "fallback", ok)
        /\ sends' = [sends EXCEPT !.fallback = IF ok THEN "ok" ELSE "failed"]
        /\ pc' = IF ok THEN "spoiler" ELSE "log_failed"
    /\ PollSendUnchanged

\* escaped_explanation = escape_markdown_v2(explanation_text), in which
\* re.sub raises TypeError on an explanation that is no string, and
\* bot.send_message(chat_id=CHAT_ID, text=spoiler_text, ...)
SendSpoiler ==
    /\ script = "polls"
    /\ pc = "spoiler"
    /\ IF item.explanation # "text"
       THEN /\ pc' = "log_failed"
            /\ sends' = [sends EXCEPT !.spoiler = "TypeError"]
            /\ UNCHANGED <<sinceCall, sinceDispatch, recent, order, batchLogs>>
       ELSE \E ok \in BOOLEAN :
            /\ Issue("send_message", "spoiler", ok)
            /\ sends' = [sends EXCEPT !.spoiler = IF ok THEN "ok" ELSE "failed"]
            /\ pc' = IF ok THEN "item_pause" ELSE "log_failed"
    /\ PollSendUnchanged

\* await asyncio.sleep(4) after an item that raised nothing
ItemPause ==
    /\ script = "polls"
    /\ pc = "item_pause"
    /\ Sleep(ITEM_PAUSE)
    /\ pc' = "item_loop"
    /\ UNCHANGED <<script, fatal, parseVars, batch_size, log_channel_int_id, client, source,
                   stats, loopVars, historyVars, otherVars>>

(***************************************************************************)
(* parse_id and escape_markdown_v2 called on their own.                    *)
(***************************************************************************)
\* parse_id(value) of forward_script and of delete_script
CallParseId ==
    /\ script = "parse_id"
    /\ pc = "start"
    /\ returned' = [forward |-> parse_id(value), delete |-> delete_parse_id(value)]
    /\ pc' = "exit"
    /\ UNCHANGED <<script, fatal, parseVars, batch_size, runVars, deleteVars, text, escaped,
                   pollVars>>

\* escape_markdown_v2(text)
CallEscape ==
    /\ script = "escape_markdown_v2"
    /\ pc = "start"
    /\ escaped' = escape_markdown_v2(text)
    /\ pc' = "exit"
    /\ UNCHANGED <<script, fatal, parseVars, batch_size, runVars, deleteVars, returned, text,
                   pollVars>>

Next ==
    \/ ValidateConfig
    \/ OpenFile
    \/ ReadLine
    \/ EndOfFile
    \/ MakeClient
    \/ Connect
    \/ SendLog
    \/ GetMe
    \/ ConvertIds
    \/ ResolveEntity
    \/ NextTask
    \/ SendText
    \/ StartRange
    \/ Fetch
    \/ EndRange
    \/ Relay
    \/ ItemSleep
    \/ SkipNonPoll
    \/ BatchPause
    \/ FloodSleep
    \/ DeleteValidateConfig
    \/ DeleteOpenFile
    \/ DeleteReadLine
    \/ DeleteEndOfFile
    \/ DeleteConnect
    \/ DeleteGetEntity
    \/ MakeChunks
    \/ NextChunk
    \/ DeleteMessages
    \/ DeleteFloodSleep
    \/ ChunkPause
    \/ PollsValidateConfig
    \/ PollsLog
    \/ FindJsonFile
    \/ LoadItems
    \/ NextItem
    \/ SendMessageItem
    \/ SendQuestion
    \/ QuestionSleep
    \/ SendPoll
    \/ SendFallbackPoll
    \/ SendSpoiler
    \/ ItemPause
    \/ CallParseId
    \/ CallEscape

Spec == Init /\ [][Next]_vars

\* The run is one sequential control flow on the asyncio loop: a statement
\* that can be executed is executed, and every awaited call returns or raises
\* (the client is built with timeout=60).
FairSpec == Spec /\ WF_vars(Next)

(***************************************************************************)
(* Properties of forward_script.main.                                      *)
(***************************************************************************)
\* the task whose turn of the loop has just ended
TaskEnded == script = "forward" /\ pc = "loop" /\ i >= 1

RangeIds(t) == IF t.type = "range" THEN t.start..t.end ELSE {}

\* C1: when a relay call of a Range task is throttled, the dispatcher waits
\* and goes on with that range: at the end of the task every poll of the
\* range after the throttled one has been relayed, and none was relayed twice.
C1_ThrottledRangeIsCompleted ==
    (TaskEnded /\ caught.type = "flood" /\ caught.site = "relay")
        => /\ \A id \in RangeIds(tasks[i]) :
                (id > caught.id /\ source[id] = "poll") => id \in relayedNow
           /\ ~relayedTwice

\* C2: when a relay call of a Range task fails with an error that is no
\* throttle, the items after it are still dispatched: at the end of the
\* task every later identifier of the range has been handled.
C2_FailedItemDoesNotAbortRange ==
    (TaskEnded /\ caught.type = "other" /\ caught.site = "relay")
        => \A id \in RangeIds(tasks[i]) : id > caught.id => id \in seen

\* C3 as claimed: a run whose client was connected ends with the final
\* report emitted exactly once.
C3_ConnectedRunIsSummarized ==
    (script = "forward" /\ pc = "exit" /\ client = "disconnected") => summaries = 1

\* C3 as amended: once the three channels are resolved and the text of the
\* 'Channels Verified' log was built from their titles, so that the task
\* loop is reached, the run reaches the final report, which is emitted
\* exactly once, whatever fails in the tasks.
C3_ResolvedRunIsSummarized ==
    /\ (script = "forward" /\ pc = "loop")
            ~> (pc = "exit" /\ fatal = "none" /\ summaries = 1)
    /\ [](summaries <= 1)

\* a run of at least two tasks, every one of which failed, was summarised
C3_EveryTaskFailed ==
    /\ script = "forward" /\ pc = "exit" /\ summaries = 1
    /\ Len(tasks) >= 2 /\ stats.errors = Len(tasks)

\* C4: a run that stops on a missing configuration value, a task file that
\* is missing or does not parse, or a channel that does not resolve has
\* issued no fetch, relay or send-text call.
C4_NoDispatchAfterFatal ==
    (script = "forward" /\ fatal # "none") => ~dispatched

\* the run stopped at the channels and published the fatal error
C4_AbortedOnResolution ==
    /\ script = "forward" /\ pc = "exit" /\ fatal = "resolve"
    /\ recent[2].what = "log_fatal"

\* identifiers of the ranges of ts that the source holds as one of kinds
RECURSIVE RangeCount(_, _)
RangeCount(ts, kinds) ==
    IF ts = <<>> THEN 0
    ELSE Cardinality({id \in RangeIds(Head(ts)) : source[id] \in kinds})
            + RangeCount(Tail(ts), kinds)

NumMessages(ts) == Cardinality({j \in 1..Len(ts) : ts[j].type = "message"})

NumRanges(ts) == Cardinality({j \in 1..Len(ts) : ts[j].type = "range"})

\* the run ended with the final report and no fetch, relay or send-text
\* call failed
CleanRunEnded ==
    script = "forward" /\ pc = "exit" /\ fatal = "none" /\ failedCalls = 0

\* C5: every work item is counted exactly once.  After a run without
\* failures an identifier that does not resolve and a resolved item that is
\* no poll are counted as skipped, a relayed poll and a sent message as
\* delivered, so that delivered + skipped is the number of range
\* identifiers plus the number of message tasks, and errors is 0.
C5_EveryItemCountedOnce ==
    CleanRunEnded =>
        /\ stats.polls_forwarded + stats.non_polls_skipped
                = RangeCount(tasks, Kinds \cup {"unknown"}) + NumMessages(tasks)
        /\ stats.errors = 0

\* What the counters hold instead: after a run without failures every
\* identifier of every range was fetched, the polls among them and the
\* messages are counted as forwarded, the other resolved items as skipped,
\* and the identifiers that do not resolve in no counter.
C5_ResolvedItemsCountedOnce ==
    CleanRunEnded =>
        /\ RangeCount(tasks, {"unknown"}) = 0
        /\ stats.polls_forwarded = RangeCount(tasks, {"poll"}) + NumMessages(tasks)
        /\ stats.non_polls_skipped = RangeCount(tasks, {"text"})
        /\ stats.errors = 0

\* the run of the example: a range holding a poll, a missing identifier and
\* a text, and one message; the missing identifier is in no counter
C5_ExampleRun ==
    /\ CleanRunEnded
    /\ NumMessages(tasks) = 1
    /\ RangeCount(tasks, {"poll"}) = 1
    /\ RangeCount(tasks, {"none"}) = 1
    /\ RangeCount(tasks, {"text"}) = 1
    /\ stats = [polls_forwarded |-> 2, non_polls_skipped |-> 1, errors |-> 0]

\* C6 as claimed: after a throttle no remote call of any kind is issued
\* before retryAfterSeconds + 5 seconds have been slept, and the throttled
\* item is not counted as delivered.
C6_SuspendedBeforeAnyCall ==
    script = "forward" =>
        /\ recent[2].owed = 0
        /\ stats.polls_forwarded = delivered

\* C6 as amended: the only remote call issued before the suspension has
\* been served is the publish of the throttle warning, and the throttled
\* item is not counted as delivered.
C6_SuspendedBeforeNextDispatch ==
    script = "forward" =>
        /\ recent[2].owed > 0 => (recent[2].kind = "log" /\ recent[2].what = "log_flood")
        /\ stats.polls_forwarded = delivered

\* a fetch, relay or send-text call issued after the suspension of a
\* throttle of MaxRetry seconds
C6_CallAfterSuspension ==
    /\ script = "forward"
    /\ recent[1].kind \in DispatchKinds /\ ~recent[1].ok
    /\ recent[2].kind \in DispatchKinds
    /\ recent[2].gap = MaxRetry + FLOOD_MARGIN
    /\ stats.errors >= 1

\* C7 as claimed: between any two consecutive fetch, relay or send-text
\* calls of a run at least MIN_DELAY_SECONDS have been slept.
C7_DelayBetweenAnyTwoCalls ==
    (script = "forward" /\ recent[2].kind \in DispatchKinds /\ ~recent[2].first)
        => recent[2].dgap >= MIN_DELAY_SECONDS

\* C7 as amended: after a relay call that succeeded at least
\* MIN_DELAY_SECONDS are slept before the next remote call of any kind.
C7_DelayAfterRelay ==
    (script = "forward" /\ recent[1].kind = "relay" /\ recent[1].ok)
        => recent[2].gap >= MIN_DELAY_SECONDS

\* two polls relayed one after the other
C7_TwoRelays ==
    /\ script = "forward"
    /\ recent[1].kind = "relay" /\ recent[1].ok
    /\ recent[2].kind = "relay"

(***************************************************************************)
(* Properties of the task parsers.                                         *)
(***************************************************************************)
\* C8 as claimed: the parse of range.txt fails only when no task was read.
C8_ParseFailsOnlyWhenEmpty ==
    (script = "forward" /\ fatal \in {"bad_id", "no_tasks"}) => tasks = <<>>

\* C8 as amended: the parse fails when no task was read, or on a start
\* line, or an end line read while a start is pending, whose value parse_id
\* rejects; otherwise the run goes on to the client with its tasks.
C8_ParseFailsOnEmptyOrBadIdentifier ==
    script = "forward" =>
        /\ fatal = "no_tasks" => tasks = <<>>
        /\ fatal = "bad_id" =>
                /\ key \in {"start", "end"}
                /\ parse_id(value).err
                /\ key = "end" => start_id # None
        /\ pc = "client" => (tasks # <<>> /\ fatal = "none")

\* the parse failed on an identifier after a task had been read
C8_FailedWithTasks ==
    script = "forward" /\ fatal = "bad_id" /\ tasks # <<>>

\* C9 as claimed: the ranges produced are as many as the end lines read
\* while a start was pending, and after an end line no start is pending.
C9_RangesMatchPendingEnds ==
    /\ rangesClosed = endsPending
    /\ key = "end" => start_id = None

\* the parse stopped on an end line whose value parse_id rejects
EndRejected == fatal = "bad_id" /\ key = "end"

\* C9 as amended: the same, but for an end line read while a start is
\* pending whose value parse_id rejects: it stops the parse, produces no
\* range and leaves the start pending.
C9_RangesMatchAcceptedEnds ==
    /\ rangesClosed = endsPending - (IF EndRejected THEN 1 ELSE 0)
    /\ (key = "end" /\ ~EndRejected) => start_id = None
    /\ EndRejected => start_id # None
    /\ script = "forward" => rangesClosed = NumRanges(tasks)

\* a file of a start, its end and a dangling start was parsed without error
C9_DanglingStart ==
    /\ pc = "client" /\ fatal = "none"
    /\ rangesClosed = 1 /\ endsPending = 1
    /\ start_id # None

\* C10: every Range of the task list has start <= end.
C10_RangesAreOrdered ==
    \A j \in 1..Len(tasks) :
        tasks[j].type = "range" => tasks[j].start <= tasks[j].end

(***************************************************************************)
(* Properties of the expansion of a range.                                 *)
(***************************************************************************)
RECURSIVE Flatten(_)
Flatten(ss) == IF ss = <<>> THEN <<>> ELSE Head(ss) \o Flatten(Tail(ss))

\* the sizes of the batches of n identifiers: size for every batch but the
\* last, and n mod size, or size when that is zero, for the last
ExpectedSizes(n, size) ==
    LET count == (n + size - 1) \div size
    IN  [c \in 1..count |-> IF c < count \/ n % size = 0 THEN size ELSE n % size]

Ascending(ids) == \A j \in 2..Len(ids) : ids[j] = ids[j - 1] + 1

\* C11: for every Range with start <= end and every batch size, the batches
\* of the expansion loop of forward_script and the chunks of delete_script
\* hold the identifiers of the range in ascending order without gaps and
\* overlaps: every batch but the last has batchSize identifiers and the last
\* has (end - start + 1) mod batchSize, or batchSize when that is zero.  The
\* batches fetched so far are the first batches of that partition, and a
\* range that ends without a failure has fetched all of them.
C11_BatchesPartitionTheRange ==
    /\ (script = "forward" /\ i \in 1..Len(tasks) /\ tasks[i].type = "range"
            /\ tasks[i].start <= tasks[i].end)
        => LET start == tasks[i].start
               sizes == ExpectedSizes(tasks[i].end - start + 1, batch_size)
               ids == Flatten(batches)
           IN  /\ Len(batches) <= Len(sizes)
               /\ \A c \in 1..Len(batches) : Len(batches[c]) = sizes[c]
               /\ ids = PyRange(start, start + Len(ids) - 1)
               /\ (pc = "loop" /\ caught = NoException)
                    => ids = PyRange(start, tasks[i].end)
    /\ (script = "delete" /\ pc \in {"chunk_loop", "delete_messages", "flood_sleep",
                                      "chunk_pause"})
        => LET sizes == ExpectedSizes(Len(all_message_ids), batch_size)
           IN  /\ Flatten(chunks) = all_message_ids
               /\ Len(chunks) = Len(sizes)
               /\ \A c \in 1..Len(chunks) : Len(chunks[c]) = sizes[c]
               /\ rangesClosed = 1 => Ascending(Flatten(chunks))

\* a range of three identifiers was fetched in a batch of two and a batch
\* of one
C11_TwoBatches ==
    /\ TaskEnded
    /\ caught = NoException
    /\ tasks[i].type = "range"
    /\ batches = <<PyRange(tasks[i].start, tasks[i].start + SmallBatch - 1),
                   <<tasks[i].end>>>>
    /\ tasks[i].end = tasks[i].start + SmallBatch

(***************************************************************************)
(* Properties of the order of the tasks.                                   *)
(***************************************************************************)
\* C12: descriptors are produced in file order and executed in that order.
\* While the file is parsed the task list holds, in the order of their
\* lines, the descriptors of the message lines and of the end lines that
\* closed a range; during the run the tasks that issued remote calls did so
\* in the order of the list, no task issuing a call after a later task has
\* issued one, so that every descriptor is executed at most once.
C12_ExecutedInFileOrder ==
    script = "forward"
        => /\ client = "none"
                => /\ tasks = [j \in 1..Len(defs) |-> defs[j].task]
                   /\ \A j \in 2..Len(defs) : defs[j - 1].line < defs[j].line
           /\ \A j \in 2..Len(order) : order[j - 1] < order[j]
           /\ \A j \in 1..Len(order) : order[j] <= i

\* a range and then a message were read and executed
C12_RangeThenMessage ==
    /\ script = "forward"
    /\ pc = "exit"
    /\ fatal = "none"
    /\ Len(tasks) = 2
    /\ tasks[1].type = "range"
    /\ tasks[2].type = "message"
    /\ order = <<1, 2>>
    /\ stats.polls_forwarded >= 2

(***************************************************************************)
(* Properties of parse_id.                                                 *)
(***************************************************************************)
\* C13 as the specification words it: a string of decimal digits gives its
\* value, a slash-delimited token gives the integer value of its last
\* segment, and every other shape fails with ValueError.
C13_DigitsOrLastSegmentOrError ==
    (script = "parse_id" /\ pc = "exit")
        => LET claimed == IF AllDecimal(value) THEN Returned(DecimalValue(value))
                          ELSE IF HasSlash(value) THEN PyInt(LastSegment(value))
                          ELSE ValueError
           IN  returned.forward = claimed /\ returned.delete = claimed

\* C13: parse_id of forward_script and of delete_script first strips the
\* blanks around the value; a stripped value of decimal digits gives its
\* integer value, a stripped value with a slash gives what int() reads from
\* its last segment (a sign and blanks around the digits are accepted), and
\* every other value, a last segment that is no integer included, fails with
\* ValueError.
C13_StrippedDigitsOrLastSegmentOrError ==
    (script = "parse_id" /\ pc = "exit")
        => LET s == Strip(value)
               expected == IF AllDecimal(s) THEN Returned(DecimalValue(s))
                           ELSE IF HasSlash(s) THEN PyInt(LastSegment(s))
                           ELSE ValueError
           IN  returned.forward = expected /\ returned.delete = expected

\* parse_id was called with " 12" and returned 12
C13_PaddedDigits ==
    /\ script = "parse_id"
    /\ pc = "exit"
    /\ value = <<" ", "1", "2">>
    /\ returned.forward = Returned(12)
    /\ returned.delete = Returned(12)

(***************************************************************************)
(* Properties of the end of the process.                                   *)
(***************************************************************************)
\* C14: the forward_script process ends with exit code 0 on normal
\* completion, whatever failed per item, and with a non-zero exit code when
\* the run stops on a fatal configuration, parse or connection/resolution
\* error.
C14_ExitCodeTellsFatalError ==
    (script = "forward" /\ pc = "exit") => (exit_code = 0 <=> fatal = "none")

(***************************************************************************)
(* Properties of the log texts.                                            *)
(***************************************************************************)
\* C15: every text that forward_script and send_polls publish to the log
\* channel has every reserved character of the markup of the channel
\* escaped, the parts that come from the content of a task included.
C15_PublishedLogsAreEscaped == ~rawPublished

\* send_polls escapes every log message it publishes
C15_PollLogsAreEscaped == script = "polls" => ~rawPublished

\* what the renderer of the log channel shows of a text: a backslash
\* escapes the character after it and is not shown itself
RECURSIVE Rendered(_)
Rendered(t) ==
    IF t = <<>> THEN <<>>
    ELSE IF Head(t) = "\\" /\ Len(t) >= 2 THEN <<t[2]>> \o Rendered(Tail(Tail(t)))
    ELSE <<Head(t)>> \o Rendered(Tail(t))

\* C16: escape_markdown_v2 is reversible.  For every text over an alphabet
\* with reserved characters, the backslash among them, the result has one
\* added backslash for each reserved character of the text and nothing else
\* is changed: every reserved character of the result is escaped, and
\* removing the escaping backslashes, as the renderer does, gives the text
\* back.
C16_EscapeIsReversible ==
    (script = "escape_markdown_v2" /\ pc = "exit")
        => /\ Rendered(escaped) = text
           /\ MarkdownEscaped(escaped)
           /\ Len(escaped) = Len(text)
                                + Cardinality({j \in 1..Len(text) : text[j] \in escape_chars})

\* a text with a backslash, another reserved character and a letter was
\* escaped
C16_EscapedBackslash ==
    /\ script = "escape_markdown_v2"
    /\ pc = "exit"
    /\ text = <<"\\", "*", "a">>
    /\ escaped = <<"\\", "\\", "\\", "*", "a">>

\* the step publishes a log text and the publish call fails
LogPublishFails == recent' # recent /\ recent'[2].kind = "log" /\ ~recent'[2].ok

\* C17: a failure to deliver a log text never aborts the run.  When the
\* publish call inside send_log (forward_script) or log_to_telegram
\* (send_polls) fails, the caller goes on with the statement that follows
\* the log, no fatal error is set and the counters polls_forwarded,
\* non_polls_skipped and errors keep their values.
C17_FailedLogDoesNotAbort ==
    [][LogPublishFails
        => /\ stats' = stats
           /\ fatal' = fatal
           /\ script = "forward" => pc' = AfterLog(pc)
           /\ script = "polls" => pc' = PollAfterLog(pc)]_vars

\* the log before the first item failed and the item was sent all the same
C17_SentAfterFailedLog ==
    /\ script = "polls"
    /\ recent[1].kind = "log"
    /\ recent[1].what = "log_found"
    /\ ~recent[1].ok
    /\ recent[2].kind = "send_message"
    /\ recent[2].ok
    /\ i = 1

\* the items of a batch have been handled with a log channel to publish to
BatchHandled ==
    /\ script = "forward"
    /\ log_channel_int_id # 0
    /\ pc = "items"
    /\ k > Len(valid_messages)

\* C18 as the specification words it: item-level skips are not published,
\* so the number of publishes of a batch, the one of its batch log, is the
\* same however many of its items are skipped.
C18_OneLogPerBatch == BatchHandled => batchLogs = 1

\* C18: handling an unresolved identifier or a non-poll item publishes
\* nothing to the log channel.  A batch without a failure publishes its
\* batch log once if at least one of its identifiers resolved and nothing
\* if none did; while its items are handled that number stays the same,
\* whatever the number of non-poll items.
C18_SkipsAreNotPublished ==
    (script = "forward" /\ pc \in {"items", "item_sleep"})
        => batchLogs = IF log_channel_int_id # 0 /\ valid_messages # <<>> THEN 1 ELSE 0

\* a batch with an unresolved identifier and a non-poll item published its
\* batch log and nothing else
C18_SkippedBoth ==
    /\ BatchHandled
    /\ Len(valid_messages) = 1
    /\ ~valid_messages[1].poll
    /\ Len(batches[Len(batches)]) = 2
    /\ stats.non_polls_skipped >= 1
    /\ batchLogs = 1

(***************************************************************************)
(* Properties of send_polls.process_content.                               *)
(***************************************************************************)
\* C19 as it is stated: a poll is sent in two phases.  The poll is first
\* tried with its explanation; the poll without the explanation is sent
\* only if that try failed with "message is too long" and the item has an
\* explanation, and it is followed by the send of the spoiler message with
\* the explanation; after any other failure of the first try nothing more
\* is sent for the item and the error is with the handler of the item.  An
\* item yields at most one poll that was sent.
C19_FallbackIsFollowedBySpoiler ==
    script = "polls"
        => /\ sends.first # "none" => sends.question = "ok"
           /\ sends.fallback # "none"
                => sends.first = "too_long" /\ item.explanation \in Truthy
           /\ (sends.first = "too_long" /\ item.explanation \in Truthy)
                => (pc = "fallback_poll" \/ sends.fallback # "none")
           /\ sends.spoiler # "none" => sends.fallback = "ok"
           /\ sends.fallback = "ok" => (pc = "spoiler" \/ sends.spoiler \in {"ok", "failed"})
           /\ (sends.first \in {"bad_request", "failed"}
                    \/ (sends.first = "too_long" /\ item.explanation \notin Truthy))
                => /\ sends.fallback = "none"
                   /\ sends.spoiler = "none"
                   /\ pc \in {"log_failed", "item_loop"}
           /\ ~(sends.first = "ok" /\ sends.fallback = "ok")

\* C19: a poll is sent in two phases.  The poll is first tried with its
\* explanation, after the question text was sent; the poll without the
\* explanation is sent only if that try failed with "message is too long"
\* and the explanation of the item is true.  After that second poll was
\* sent the spoiler message is sent if the explanation is a text; if it is
\* no text, building the spoiler raises, no spoiler message is sent and
\* the error is with the handler of the item.  After any other failure of
\* the first try, and when the arguments of the first try could not be
\* built, nothing more is sent for the item and the error is with the
\* handler of the item.  An item yields at most one poll that was sent.
C19_FallbackOnlyWhenTooLong ==
    script = "polls"
        => /\ sends.first # "none" => sends.question = "ok"
           /\ sends.first = "KeyError" <=> (~item.options /\ sends.first # "none")
           /\ sends.fallback # "none"
                => sends.first = "too_long" /\ item.explanation \in Truthy
           /\ (sends.first = "too_long" /\ item.explanation \in Truthy)
                => (pc = "fallback_poll" \/ sends.fallback # "none")
           /\ sends.spoiler # "none" => sends.fallback = "ok"
           /\ (sends.fallback = "ok" /\ item.explanation = "text")
                => (pc = "spoiler" \/ sends.spoiler \in {"ok", "failed"})
           /\ (sends.fallback = "ok" /\ item.explanation # "text")
                => \/ pc = "spoiler"
                   \/ sends.spoiler = "TypeError" /\ pc \in {"log_failed", "item_loop"}
           /\ (sends.first \in {"KeyError", "bad_request", "failed"}
                    \/ (sends.first = "too_long" /\ item.explanation \notin Truthy))
                => /\ sends.fallback = "none"
                   /\ sends.spoiler = "none"
                   /\ pc \in {"log_failed", "item_loop"}
           /\ ~(sends.first = "ok" /\ sends.fallback = "ok")

\* the poll was too long with its explanation and was sent without it,
\* followed by the spoiler message
C19_SentInTwoPhases ==
    /\ script = "polls"
    /\ pc = "item_pause"
    /\ item.explanation = "text"
    /\ sends.first = "too_long"
    /\ sends.fallback = "ok"
    /\ sends.spoiler = "ok"
    /\ recent[2].kind = "send_message"
    /\ recent[2].what = "spoiler"

(***************************************************************************)
(* Properties of delete_script.main.                                       *)
(***************************************************************************)
\* C20: an error of the delete call of one chunk never aborts the rest of
\* the queue: whatever failed (permission refused, throttle or another
\* error), every later chunk is still submitted, so that a deletion that
\* has ended has submitted every chunk.
C20_EveryChunkIsSubmitted ==
    (script = "delete" /\ pc = "exit" /\ fatal = "none")
        => submitted = [j \in 1..Len(chunks) |-> j]

(***************************************************************************)
(* Properties of the item loop of send_polls.process_content.              *)
(***************************************************************************)
\* C21: items are isolated from each other.  When a send of item i fails,
\* the poll send after the question text included, the error is reported
\* and every item after i is still processed in list order, so that the run
\* ends after the last item with its final log emitted exactly once.
C21_FailedItemIsIsolated ==
    (script = "polls" /\ pc = "log_failed")
        ~> (pc = "exit" /\ fatal = "none" /\ i = nitems /\ summaries = 1)

\* What holds of the item loop: after a failed item the run ends either
\* after the last item, with its final log emitted once, or on an element
\* of the list that is no dict; the items are taken in list order, and
\* nothing that was sent for an item is sent again.
FailedItemIsIsolatedAmongDicts ==
    /\ (script = "polls" /\ pc = "log_failed")
            ~> \/ pc = "exit" /\ fatal = "none" /\ i = nitems /\ summaries = 1
               \/ pc = "exit" /\ fatal = "crash" /\ item.form = "nondict" /\ summaries = 0
    /\ [](script = "polls" => summaries <= 1)
    /\ [][script = "polls" => (i' = i \/ i' = i + 1)]_vars
    /\ [][(script = "polls" /\ pc # "item_loop")
            => \A f \in DOMAIN sends : sends[f] # "none" => sends'[f] = sends[f]]_vars

(***************************************************************************)
(* Properties of the chunk loop of delete_script.main.                     *)
(***************************************************************************)
\* C22: each chunk is submitted for deletion at most once in a run.  The
\* chunks are given to delete_messages in the order of the list, each once:
\* the chunk of a call that was throttled or that failed is not submitted
\* again after the backoff, the loop goes on with the next chunk, and it
\* ends after at most one pass over the list.
C22_ChunksSubmittedOnce ==
    /\ [](script = "delete"
            => /\ submitted = [j \in 1..Len(submitted) |-> j]
               /\ Len(submitted) <= Len(chunks)
               /\ pc \in {"flood_sleep", "chunk_pause"} => Len(submitted) = i)
    /\ [][(script = "delete" /\ pc \in {"flood_sleep", "chunk_pause", "chunk_loop"})
            => submitted' = submitted]_vars
    /\ (script = "delete" /\ pc = "chunk_loop")
            ~> (pc = "exit" /\ Len(submitted) <= Len(chunks))

\* the first of two chunks was throttled, and the loop ended with each of
\* them submitted once
C22_ThrottledChunkNotRetried ==
    /\ script = "delete"
    /\ pc = "exit"
    /\ fatal = "none"
    /\ Len(chunks) = 2
    /\ submitted = <<1, 2>>
    /\ recent[1].kind = "delete"
    /\ ~recent[1].ok
    /\ recent[2].kind = "delete"
    /\ recent[2].gap > FLOOD_MARGIN + CHUNK_PAUSE

(***************************************************************************)
(* Properties of the counters of forward_script.main.                      *)
(***************************************************************************)
\* C23: the errors counter is incremented at most once per task.  In every
\* state errors is at most the number of tasks started so far, however many
\* items of a range were not dispatched because of the failure, and none of
\* polls_forwarded, non_polls_skipped and errors ever decreases.
C23_ErrorsAtMostOncePerTask ==
    /\ [](script = "forward" => (stats.errors <= i /\ stats.errors = failedCalls))
    /\ [][script = "forward"
            => /\ stats'.polls_forwarded >= stats.polls_forwarded
               /\ stats'.non_polls_skipped >= stats.non_polls_skipped
               /\ stats'.errors >= stats.errors
               /\ stats'.errors <= stats.errors + 1
               /\ stats'.errors > stats.errors => pc' \in {"log_flood", "log_error"}]_vars

\* the first relay of a range of three identifiers failed: two items were
\* not dispatched and one error was counted
C23_OneErrorForThreeItems ==
    /\ TaskEnded
    /\ i = 1
    /\ caught.site = "relay"
    /\ tasks[i].type = "range"
    /\ Cardinality(RangeIds(tasks[i]) \ seen) >= 2
    /\ stats.errors = 1
    /\ stats.polls_forwarded = 0

====
